---- MODULE Spec2Model ----
(***************************************************************************)
(* A model of leveldb's block reader (table/block.cc): the Block           *)
(* constructor, Block::NewIterator and the Block::Iter cursor with its      *)
(* navigation operations, over byte buffers.                                *)
(*                                                                         *)
(* Bytes are naturals in 0..255, a buffer is a sequence of bytes, and an   *)
(* offset o into a buffer names element o+1 of the sequence.                *)
(***************************************************************************)
EXTENDS Integers, Sequences, FiniteSets, TLC

VARIABLES contents, block, iters

vars == <<contents, block, iters>>

----------------------------------------------------------------------------
(* Bounds of the model.                                                    *)

\* Largest number of entries of a generated well-formed block.
MaxEntries == 4

\* Largest restart interval the generated well-formed blocks are built with.
MaxInterval == 3

\* Largest number of bytes cut off the entry region of a truncated block.
MaxCut == 2

----------------------------------------------------------------------------
(* Widths and primitives of util/coding.h and leveldb/slice.h.              *)
(*                                                                         *)
(* A uint32_t (and a pointer offset, which may exceed 32 bits) is kept as  *)
(* two limbs [hi, lo] with lo < 2^16, so that values up to and beyond      *)
(* 2^32 - 1 are exact and uint32_t arithmetic wraps at 2^32 as in the code.*)

\* 2^16: the limb of the two-limb numbers.
Limb == 256 * 256

\* sizeof(uint32_t)
WordSize == 4

\* The two-limb form of a natural n.
Big(n) == [hi |-> n \div Limb, lo |-> n % Limb]

BigAdd(a, b) ==
    [hi |-> a.hi + b.hi + ((a.lo + b.lo) \div Limb), lo |-> (a.lo + b.lo) % Limb]

\* static_cast<uint32_t>: the value modulo 2^32.
U32(a) == [hi |-> a.hi % Limb, lo |-> a.lo]

BigLess(a, b) == a.hi < b.hi \/ (a.hi = b.hi /\ a.lo < b.lo)

\* The natural a two-limb number stands for (used below 2^31 only).
Small(a) == a.hi * Limb + a.lo

\* The value v under the name the body gives it, evaluated once.
Bind(v, Body(_)) == Body(v)

RECURSIVE Pow2(_)
Pow2(n) == IF n = 0 THEN 1 ELSE 2 * Pow2(n - 1)

\* (uint32_t)(byte << shift), for shift in {0, 7, 14, 21, 28}.
ShiftLeft(byte, shift) ==
    U32(IF shift < 16 THEN Big(byte * Pow2(shift))
        ELSE [hi |-> byte * Pow2(shift - 16), lo |-> 0])

\* The bytes data[off .. off+n-1] (offsets), all inside the buffer.
Bytes(data, off, n) == SubSeq(data, off + 1, off + n)

\* DecodeFixed32: 4 bytes, little-endian.
DecodeFixed32(data, off) ==
    [hi |-> data[off + 3] + 256 * data[off + 4],
     lo |-> data[off + 1] + 256 * data[off + 2]]

\* GetVarint32Ptr: base-128, least significant group first, at most 5
\* bytes, never reading at or past limit; the result is a uint32_t, so the
\* bits a fifth byte shifts beyond bit 31 are lost.
RECURSIVE GetVarint32PtrFallback(_, _, _, _, _)
GetVarint32PtrFallback(data, p, limit, shift, result) ==
    IF shift > 28 \/ p >= limit
    THEN [ok |-> FALSE, p |-> p, v |-> Big(0)]
    ELSE LET byte == data[p + 1] IN
         IF byte >= 128
         THEN GetVarint32PtrFallback(data, p + 1, limit, shift + 7,
                                     BigAdd(result, ShiftLeft(byte - 128, shift)))
         ELSE [ok |-> TRUE, p |-> p + 1,
               v  |-> BigAdd(result, ShiftLeft(byte, shift))]

GetVarint32Ptr(data, p, limit) ==
    IF p < limit /\ data[p + 1] < 128
    THEN [ok |-> TRUE, p |-> p + 1, v |-> Big(data[p + 1])]
    ELSE GetVarint32PtrFallback(data, p, limit, 0, Big(0))

\* BytewiseComparator: memcmp on the common prefix, then the lengths.
RECURSIVE CompareFrom(_, _, _)
CompareFrom(a, b, i) ==
    IF i > Len(a) \/ i > Len(b)
    THEN (IF Len(a) < Len(b) THEN -1 ELSE IF Len(a) > Len(b) THEN 1 ELSE 0)
    ELSE IF a[i] < b[i] THEN -1
    ELSE IF a[i] > b[i] THEN 1
    ELSE CompareFrom(a, b, i + 1)

Compare(a, b) == CompareFrom(a, b, 1)

----------------------------------------------------------------------------
(* The writer's side of the format (block_builder.cc), used to generate    *)
(* the well-formed input buffers.                                           *)

RECURSIVE EncodeVarint32(_)
EncodeVarint32(v) ==
    IF v < 128 THEN <<v>> ELSE <<128 + (v % 128)>> \o EncodeVarint32(v \div 128)

PutFixed32(v) ==
    <<v % 256, (v \div 256) % 256, (v \div 65536) % 256, (v \div 16777216) % 256>>

RECURSIVE SharedPrefixLen(_, _, _)
SharedPrefixLen(a, b, i) ==
    IF i < Len(a) /\ i < Len(b) /\ a[i + 1] = b[i + 1]
    THEN SharedPrefixLen(a, b, i + 1)
    ELSE i

\* One entry, front-coded against the previous key.
EncodeEntry(shared, key, value) ==
    EncodeVarint32(shared) \o EncodeVarint32(Len(key) - shared)
        \o EncodeVarint32(Len(value)) \o SubSeq(key, shared + 1, Len(key)) \o value

\* The entry region of entries es[i..], and the offsets of its restart
\* points, given the region built so far.
RECURSIVE BuildFrom(_, _, _, _, _)
BuildFrom(es, interval, i, region, restarts) ==
    IF i > Len(es)
    THEN [region |-> region, restarts |-> restarts]
    ELSE LET isRestart == ((i - 1) % interval) = 0
             shared == IF isRestart THEN 0
                       ELSE SharedPrefixLen(es[i - 1].key, es[i].key, 0)
         IN  BuildFrom(es, interval, i + 1,
                       region \o EncodeEntry(shared, es[i].key, es[i].value),
                       IF isRestart THEN Append(restarts, Len(region))
                       ELSE restarts)

RECURSIVE PutRestarts(_, _)
PutRestarts(restarts, i) ==
    IF i > Len(restarts) THEN <<>>
    ELSE PutFixed32(restarts[i]) \o PutRestarts(restarts, i + 1)

\* A block buffer: entry region, restart array, restart count.
MakeBlock(region, restarts) ==
    region \o PutRestarts(restarts, 1) \o PutFixed32(Len(restarts))

\* BlockBuilder::Finish for the entries es; a block with no entries has
\* the single restart point 0.
BuildBlock(es, interval) ==
    LET b == BuildFrom(es, interval, 1, <<>>, <<>>)
    IN  MakeBlock(b.region, IF Len(es) = 0 THEN <<0>> ELSE b.restarts)

----------------------------------------------------------------------------
(* Block: the constructor and the restart-array geometry.                  *)

\* Block::NumRestarts: the uint32_t in the last 4 bytes of data[0..size).
NumRestarts(data, size) == DecodeFixed32(data, size - WordSize)

\* restart_offset_ of a block the constructor rejected: never assigned.
Unset == "unset"

\* Block::Block: size_ = 0 marks a buffer that is no usable block.
\* Block::Block with the restart count checked against size / 4, the
\* trailing count's own 4 bytes not taken off.
BlockOf_LooseBound(data) ==
    IF Len(data) < WordSize
    THEN [built |-> TRUE, size |-> 0, restart_offset |-> Unset]
    ELSE LET n == NumRestarts(data, Len(data)) IN
         IF BigLess(Big(Len(data) \div WordSize), n)
         THEN [built |-> TRUE, size |-> 0, restart_offset |-> Unset]
         ELSE [built |-> TRUE, size |-> Len(data),
               restart_offset |-> Len(data) - (1 + Small(n)) * WordSize]

\* The Block keeps data_, a pointer to the caller's buffer, which the model
\* reads as contents.data.
BlockOf(data) ==
    IF Len(data) < WordSize
    THEN [built |-> TRUE, size |-> 0, restart_offset |-> Unset]
    ELSE LET max_restarts_allowed == (Len(data) - WordSize) \div WordSize
             n == NumRestarts(data, Len(data))
         IN  IF BigLess(Big(max_restarts_allowed), n)
             THEN [built |-> TRUE, size |-> 0, restart_offset |-> Unset]
             ELSE [built |-> TRUE, size |-> Len(data),
                   restart_offset |-> Len(data) - (1 + Small(n)) * WordSize]

----------------------------------------------------------------------------
(* DecodeEntry.                                                            *)

DecodeFail == [ok |-> FALSE, p |-> 0, shared |-> Big(0), non_shared |-> Big(0),
               value_length |-> Big(0)]

\* The length check that ends DecodeEntry: both sides are uint32_t.
CheckLengths(p, limit, shared, non_shared, value_length) ==
    IF BigLess(Big(limit - p), U32(BigAdd(non_shared, value_length)))
    THEN DecodeFail
    ELSE [ok |-> TRUE, p |-> p, shared |-> shared, non_shared |-> non_shared,
          value_length |-> value_length]

\* The three length fields of DecodeEntry: one raw byte each when all
\* three are below 128, three varints otherwise. p is the offset just past
\* them.
DecodeLengths(data, p, limit) ==
    IF limit - p < 3 THEN DecodeFail
    ELSE IF data[p + 1] < 128 /\ data[p + 2] < 128 /\ data[p + 3] < 128
    THEN [ok |-> TRUE, p |-> p + 3, shared |-> Big(data[p + 1]),
          non_shared |-> Big(data[p + 2]), value_length |-> Big(data[p + 3])]
    ELSE Bind(GetVarint32Ptr(data, p, limit), LAMBDA s :
         IF ~s.ok THEN DecodeFail
         ELSE Bind(GetVarint32Ptr(data, s.p, limit), LAMBDA n :
         IF ~n.ok THEN DecodeFail
         ELSE Bind(GetVarint32Ptr(data, n.p, limit), LAMBDA v :
         IF ~v.ok THEN DecodeFail
         ELSE [ok |-> TRUE, p |-> v.p, shared |-> s.v, non_shared |-> n.v,
               value_length |-> v.v])))

\* DecodeEntry(data_ + p, data_ + limit, ...): ok = FALSE stands for NULL,
\* and p is the offset of the key delta.
DecodeEntry(data, p, limit) ==
    Bind(DecodeLengths(data, p, limit), LAMBDA h :
        IF ~h.ok THEN DecodeFail
        ELSE CheckLengths(h.p, limit, h.shared, h.non_shared, h.value_length))

\* DecodeEntry at a 32-bit offset read from the restart array: an offset at
\* or past limit leaves limit - p < 3.
DecodeEntryAt(data, offset, limit) ==
    IF BigLess(offset, Big(limit)) THEN DecodeEntry(data, Small(offset), limit)
    ELSE DecodeFail

----------------------------------------------------------------------------
(* Block::Iter.                                                            *)
(*                                                                         *)
(* An iterator is a record: kind ("real" for Block::Iter, "empty" and      *)
(* "error" for the iterators of NewEmptyIterator and NewErrorIterator,      *)
(* "none" before NewIterator, "crashed" once an operation has read outside *)
(* the buffer and the process has died), the fields of Block::Iter, and    *)
(* history fields that record what the last operation did: hist (the       *)
(* operation and how many steps of the same direction followed it), seen   *)
(* (whether it called CorruptionError, whether it parsed at a malformed    *)
(* entry, whether a restart entry Seek examined was bad, whether every     *)
(* index it passed to GetRestartPoint met the assertion there, whether     *)
(* every successful ParseNextKey moved the parse offset forward, and how   *)
(* many times it called ParseNextKey), dec (the last entry DecodeEntry     *)
(* accepted) and search (the windows and midpoints of the binary search of *)
(* Seek, and the window it ended with). An operation whose parse loop has  *)
(* not ended after more calls of ParseNextKey than the entry region has    *)
(* bytes is cut off there, and leaves the kind "diverged".                 *)

OK == "OK"
BadEntry == "Corruption: bad entry in block"
BadBlock == "Corruption: bad block contents"

\* Slice(): the empty string, which is not a part of the block's buffer.
EmptySlice == [off |-> Big(0), len |-> Big(0), inbuf |-> FALSE]

NoSeen == [detected |-> FALSE, malformed |-> FALSE, bad_restart |-> FALSE,
           index_ok |-> TRUE, mono |-> TRUE, parses |-> 0]
NoSearch == [probes |-> <<>>, done |-> FALSE, left |-> 0, right |-> 0]
NoDec == [ok |-> FALSE, p |-> 0, non_shared |-> Big(0), value_length |-> Big(0)]
NoHist == [op |-> "none", n |-> 0, target |-> <<>>]

NoIter ==
    [kind |-> "none", restarts |-> 0, num_restarts |-> 0, current |-> 0,
     restart_index |-> 0, key |-> <<>>, value |-> EmptySlice, status |-> OK,
     hist |-> NoHist, seen |-> NoSeen, dec |-> NoDec, search |-> NoSearch]

\* What an out-of-bounds read gives: the process dies, or the read returns
\* whatever bytes lie behind the buffer.
Oracle == {"crash", "zeros", "ones"}

\* The byte an out-of-bounds read returns under oracle g.
GarbageByte(g) == IF g = "zeros" THEN 0 ELSE 255

\* Block::Iter::Iter
NewIter(restarts, num_restarts) ==
    [NoIter EXCEPT !.kind = "real", !.restarts = restarts,
                   !.num_restarts = num_restarts, !.current = restarts,
                   !.restart_index = num_restarts]

\* Block::NewIterator without the check for a block of no restart points.
NewIterator_NoEmptyCheck(data, b) ==
    IF b.size < WordSize
    THEN [NoIter EXCEPT !.kind = "error", !.status = BadBlock]
    ELSE NewIter(b.restart_offset, Small(NumRestarts(data, b.size)))

\* Block::NewIterator
NewIterator(data, b) ==
    IF b.size < WordSize
    THEN [NoIter EXCEPT !.kind = "error", !.status = BadBlock]
    ELSE LET num_restarts == NumRestarts(data, b.size) IN
         IF num_restarts = Big(0)
         THEN [NoIter EXCEPT !.kind = "empty"]
         ELSE NewIter(b.restart_offset, Small(num_restarts))

\* Block::Iter::Valid; the empty and the error iterator are never valid.
Valid(it) == IF it.kind = "real" THEN it.current < it.restarts ELSE FALSE

\* Block::Iter::NextEntryOffset: (value_.data() + value_.size()) - data_ as
\* a uint32_t. Called only while value_ points into the buffer.
NextEntryOffset(it) == U32(BigAdd(it.value.off, it.value.len))

\* Block::Iter::GetRestartPoint
GetRestartPoint(data, it, index) ==
    DecodeFixed32(data, it.restarts + index * WordSize)

\* SeekToRestartPoint that also forgets the error of the iterator.
SeekToRestartPoint_ClearStatus(data, it, index) ==
    [it EXCEPT !.key = <<>>, !.restart_index = index, !.status = OK,
               !.value = [off |-> GetRestartPoint(data, it, index),
                          len |-> Big(0), inbuf |-> TRUE],
               !.seen.index_ok = @ /\ index < it.num_restarts]

\* SeekToRestartPoint without key_.clear().
SeekToRestartPoint_KeepKey(data, it, index) ==
    [it EXCEPT !.restart_index = index,
               !.value = [off |-> GetRestartPoint(data, it, index),
                          len |-> Big(0), inbuf |-> TRUE],
               !.seen.index_ok = @ /\ index < it.num_restarts]

\* Block::Iter::SeekToRestartPoint
SeekToRestartPoint(data, it, index) ==
    [it EXCEPT !.key = <<>>, !.restart_index = index,
               !.value = [off |-> GetRestartPoint(data, it, index),
                          len |-> Big(0), inbuf |-> TRUE],
               !.seen.index_ok = @ /\ index < it.num_restarts]

\* CorruptionError that leaves current_ and restart_index_ where they are.
CorruptionError_KeepCurrent(it) ==
    [it EXCEPT !.status = BadEntry, !.key = <<>>, !.value = EmptySlice,
               !.seen.detected = TRUE]

\* CorruptionError that leaves restart_index_ where it is.
CorruptionError_KeepIndex(it) ==
    [it EXCEPT !.current = it.restarts,
               !.status = BadEntry, !.key = <<>>, !.value = EmptySlice,
               !.seen.detected = TRUE]

\* Block::Iter::CorruptionError
CorruptionError(it) ==
    [it EXCEPT !.current = it.restarts, !.restart_index = it.num_restarts,
               !.status = BadEntry, !.key = <<>>, !.value = EmptySlice,
               !.seen.detected = TRUE]

\* n bytes read at offset off <= Len(data): the bytes of the buffer, and
\* past its end what the oracle g says.
ReadBytes(data, off, n, g) ==
    IF ~BigLess(Big(Len(data)), BigAdd(Big(off), n))
    THEN [crash |-> FALSE, bytes |-> Bytes(data, off, Small(n))]
    ELSE IF g = "crash" THEN [crash |-> TRUE, bytes |-> <<>>]
    ELSE [crash |-> FALSE,
          bytes |-> Bytes(data, off, Len(data) - off)
                    \o [i \in 1..(Small(n) - (Len(data) - off)) |-> GarbageByte(g)]]

\* The process has died inside an operation of this iterator.
Crashed(it) == [it EXCEPT !.kind = "crashed"]

\* The lengths of the entry at offset cur are malformed: they cannot be
\* decoded before limit, or the key delta and the value they declare do not
\* fit before limit.
MalformedLengths(data, cur, limit) ==
    Bind(DecodeLengths(data, cur, limit), LAMBDA h :
        \/ ~h.ok
        \/ BigLess(Big(limit - h.p), BigAdd(h.non_shared, h.value_length)))

\* The entry at offset cur is malformed: its lengths are, or it shares more
\* bytes than the key before it has.
Malformed(data, cur, limit, keylen) ==
    \/ MalformedLengths(data, cur, limit)
    \/ BigLess(Big(keylen), DecodeLengths(data, cur, limit).shared)

\* The restart entry at offset is one Seek reports as a corruption: it
\* cannot be decoded before limit, or its shared length is not 0.
BadRestart(data, offset, limit) ==
    /\ BigLess(offset, Big(limit))
    /\ Malformed(data, Small(offset), limit, 0)

\* What DecodeEntry accepted, for the history field dec.
Accepted(d) ==
    [ok |-> TRUE, p |-> d.p, non_shared |-> d.non_shared,
     value_length |-> d.value_length]

\* key_.append(p, non_shared) without key_.resize(shared) before it.
ReconstructKey_NoResize(key, shared, delta) == key \o delta

\* The same with key_.resize(shared) left out when shared is 0.
ReconstructKey_SkipZero(key, shared, delta) ==
    IF shared = 0 THEN key \o delta ELSE SubSeq(key, 1, shared) \o delta

\* key_.resize(shared); key_.append(p, non_shared)
ReconstructKey(key, shared, delta) == SubSeq(key, 1, shared) \o delta

\* The loop that ends ParseNextKey: restart_index_ moves forward while the
\* next restart point lies before current_.
RECURSIVE AdvanceRestartIndex(_, _, _, _)
AdvanceRestartIndex(data, it, restart_index, current) ==
    IF restart_index + 1 < it.num_restarts
       /\ BigLess(GetRestartPoint(data, it, restart_index + 1), Big(current))
    THEN AdvanceRestartIndex(data, it, restart_index + 1, current)
    ELSE restart_index

\* ParseNextKey without the assignment to value_.
AssignValue_Skipped(it, d) == it

\* value_ = Slice(p + non_shared, value_length)
AssignValue(it, d) ==
    [it EXCEPT !.value = [off |-> BigAdd(Big(d.p), d.non_shared),
                          len |-> d.value_length, inbuf |-> TRUE]]

\* The parse loop of the operation has gone on for more calls of
\* ParseNextKey than the entry region has bytes.
Diverged(it) == [it EXCEPT !.kind = "diverged"]

\* Block::Iter::ParseNextKey; ok is its return value.
ParseNextKey(data, called, g) ==
    IF called.seen.parses > called.restarts
    THEN [ok |-> FALSE, it |-> Diverged(called)]
    ELSE
    Bind([called EXCEPT !.seen.parses = @ + 1], LAMBDA it :
    LET next == NextEntryOffset(it)
        limit == it.restarts
    IN  IF ~BigLess(next, Big(limit))
        THEN [ok |-> FALSE,
              it |-> [it EXCEPT !.current = it.restarts,
                                !.restart_index = it.num_restarts]]
        ELSE
        Bind(Small(next), LAMBDA current :
        Bind(DecodeEntry(data, current, limit), LAMBDA d :
        Bind([it EXCEPT !.current = current,
                 !.seen.malformed =
                     @ \/ Malformed(data, current, limit, Len(it.key))],
             LAMBDA it1 :
            IF ~d.ok \/ BigLess(Big(Len(it.key)), d.shared)
            THEN [ok |-> FALSE, it |-> CorruptionError(it1)]
            ELSE
            Bind(ReadBytes(data, d.p, d.non_shared, g), LAMBDA delta :
            IF delta.crash THEN [ok |-> FALSE, it |-> Crashed(it1)]
            ELSE [ok |-> TRUE,
                  it |-> [AssignValue(it1, d) EXCEPT
                      !.key = ReconstructKey(it.key, Small(d.shared), delta.bytes),
                      !.restart_index =
                          AdvanceRestartIndex(data, it, it.restart_index, current),
                      !.dec = Accepted(d),
                      !.seen.mono =
                          @ /\ BigLess(next, U32(BigAdd(BigAdd(Big(d.p), d.non_shared),
                                                        d.value_length)))]])))))

\* The history fields at the start of an operation.
Begin(it) == [it EXCEPT !.seen = NoSeen, !.dec = NoDec, !.search = NoSearch]

\* Block::Iter::Next (the caller has checked Valid)
IterNext(data, it, g) == ParseNextKey(data, Begin(it), g).it

\* The backward scan of Prev stopping at a restart point at original, not
\* only before it.
RECURSIVE ScanBack_Strict(_, _, _, _)
ScanBack_Strict(data, it, restart_index, original) ==
    IF BigLess(Big(original), GetRestartPoint(data, it, restart_index))
    THEN IF restart_index = 0 THEN -1
         ELSE ScanBack_Strict(data, it, restart_index - 1, original)
    ELSE restart_index

\* The backward scan of Prev: the last restart index at or below
\* restart_index whose restart point lies before original, or -1 if there is
\* none ("No more entries").
RECURSIVE ScanBack(_, _, _, _)
ScanBack(data, it, restart_index, original) ==
    IF ~BigLess(GetRestartPoint(data, it, restart_index), Big(original))
    THEN IF restart_index = 0 THEN -1
         ELSE ScanBack(data, it, restart_index - 1, original)
    ELSE restart_index

\* The replay of Prev parsing one entry only, whatever lies between the
\* restart point and original.
ReplayTo_Once(data, it, original, g) == ParseNextKey(data, it, g).it

\* do {} while (ParseNextKey() && NextEntryOffset() < original)
RECURSIVE ReplayTo(_, _, _, _)
ReplayTo(data, it, original, g) ==
    Bind(ParseNextKey(data, it, g), LAMBDA r :
        IF r.ok /\ BigLess(NextEntryOffset(r.it), Big(original))
        THEN ReplayTo(data, r.it, original, g)
        ELSE r.it)

\* Block::Iter::Prev (the caller has checked Valid)
IterPrev(data, it, g) ==
    Bind(it.current, LAMBDA original :
    Bind(ScanBack(data, it, it.restart_index, original), LAMBDA restart_index :
    Bind([Begin(it) EXCEPT !.seen.index_ok = it.restart_index < it.num_restarts],
         LAMBDA begun :
        IF restart_index = -1
        THEN [begun EXCEPT !.current = it.restarts,
                           !.restart_index = it.num_restarts]
        ELSE ReplayTo(data, SeekToRestartPoint(data, begun, restart_index),
                      original, g))))

\* The test of the binary search taking a restart key equal to the target
\* for one before it.
MidBeforeTarget_OrEqual(mid_key, target) == Compare(mid_key, target) <= 0

\* if (Compare(mid_key, target) < 0): the key at mid is before the target.
MidBeforeTarget(mid_key, target) == Compare(mid_key, target) < 0

\* The binary search of Seek over the restart array. found = FALSE: the
\* search was aborted (CorruptionError, or the process died).
RECURSIVE BinarySearch(_, _, _, _, _, _)
BinarySearch(data, it, target, left, right, g) ==
    IF ~(left < right)
    THEN [found |-> TRUE, left |-> left,
          it |-> [it EXCEPT !.search.done = TRUE, !.search.left = left,
                            !.search.right = right]]
    ELSE
    Bind((left + right + 1) \div 2, LAMBDA mid :
    Bind(GetRestartPoint(data, it, mid), LAMBDA region_offset :
    Bind(DecodeEntryAt(data, region_offset, it.restarts), LAMBDA d :
    Bind([it EXCEPT !.seen.malformed =
             @ \/ (BigLess(region_offset, Big(it.restarts))
                   /\ MalformedLengths(data, Small(region_offset),
                                       it.restarts)),
             !.seen.bad_restart =
                 @ \/ BadRestart(data, region_offset, it.restarts),
             !.seen.index_ok = @ /\ mid < it.num_restarts,
             !.search.probes =
                 Append(@, [left |-> left, right |-> right, mid |-> mid])],
         LAMBDA it1 :
        IF ~d.ok \/ d.shared # Big(0)
        THEN [found |-> FALSE, left |-> left, it |-> CorruptionError(it1)]
        ELSE
        Bind(ReadBytes(data, d.p, d.non_shared, g), LAMBDA mid_key :
        Bind([it1 EXCEPT !.dec = Accepted(d)], LAMBDA it2 :
            IF mid_key.crash
            THEN [found |-> FALSE, left |-> left, it |-> Crashed(it2)]
            ELSE IF MidBeforeTarget(mid_key.bytes, target)
            THEN BinarySearch(data, it2, target, mid, right, g)
            ELSE BinarySearch(data, it2, target, left, mid - 1, g)))))))

\* The linear search of Seek stopping at the first key > target.
RECURSIVE LinearSearch_Strict(_, _, _, _)
LinearSearch_Strict(data, it, target, g) ==
    Bind(ParseNextKey(data, it, g), LAMBDA r :
        IF ~r.ok THEN r.it
        ELSE IF Compare(r.it.key, target) > 0 THEN r.it
        ELSE LinearSearch_Strict(data, r.it, target, g))

\* The linear search of Seek: the first key >= target.
RECURSIVE LinearSearch(_, _, _, _)
LinearSearch(data, it, target, g) ==
    Bind(ParseNextKey(data, it, g), LAMBDA r :
        IF ~r.ok THEN r.it
        ELSE IF Compare(r.it.key, target) >= 0 THEN r.it
        ELSE LinearSearch(data, r.it, target, g))

\* Block::Iter::Seek
IterSeek(data, it, target, g) ==
    Bind(BinarySearch(data, Begin(it), target, 0, it.num_restarts - 1, g),
         LAMBDA s :
        IF ~s.found THEN s.it
        ELSE Bind(SeekToRestartPoint(data, s.it, s.left), LAMBDA at :
             LinearSearch(data,
                          [at EXCEPT !.seen.bad_restart =
                               @ \/ BadRestart(data, at.value.off, at.restarts)],
                          target, g)))

\* Block::Iter::SeekToFirst
IterSeekToFirst(data, it, g) ==
    ParseNextKey(data, SeekToRestartPoint(data, Begin(it), 0), g).it

\* The loop of SeekToLast parsing one entry only.
SkipToLast_Once(data, it, g) == ParseNextKey(data, it, g).it

\* while (ParseNextKey() && NextEntryOffset() < restarts_) {}
RECURSIVE SkipToLast(_, _, _)
SkipToLast(data, it, g) ==
    Bind(ParseNextKey(data, it, g), LAMBDA r :
        IF r.ok /\ BigLess(NextEntryOffset(r.it), Big(it.restarts))
        THEN SkipToLast(data, r.it, g)
        ELSE r.it)

\* Block::Iter::SeekToLast
IterSeekToLast(data, it, g) ==
    SkipToLast(data, SeekToRestartPoint(data, Begin(it), it.num_restarts - 1), g)

----------------------------------------------------------------------------
(* The input buffers.                                                      *)

\* The keys of the generated blocks, in the comparator's order.
KeyOrder == << <<>>, <<1>>, <<1, 1>>, <<1, 2>>, <<2>> >>

\* The targets of Seek: the keys and keys between and around them.
Targets == {KeyOrder[i] : i \in 1..Len(KeyOrder)} \cup {<<1, 1, 1>>, <<2, 0>>}

\* The length of a value that needs the varint form of the length fields.
LongLen == 130

\* The value of the i-th entry of a generated block; the entry longAt has a
\* long value.
ValueOf(i, longAt) ==
    IF i = longAt THEN [j \in 1..LongLen |-> 200 + i]
    ELSE [j \in 1..(i % 3) |-> 50 + i]

\* The keys KeyOrder[k], k in S, in increasing order, as entries i, i+1, ...
RECURSIVE EntriesFrom(_, _, _, _)
EntriesFrom(S, k, i, longAt) ==
    IF k > Len(KeyOrder) THEN <<>>
    ELSE IF k \in S
    THEN <<[key |-> KeyOrder[k], value |-> ValueOf(i, longAt)]>>
             \o EntriesFrom(S, k + 1, i + 1, longAt)
    ELSE EntriesFrom(S, k + 1, i, longAt)

KeySets == {S \in SUBSET (1..Len(KeyOrder)) : Cardinality(S) <= MaxEntries}

\* Every strictly increasing entry list, built with every restart interval.
WellFormedInputs ==
    {[data |-> BuildBlock(EntriesFrom(S, 1, 1, la), iv), wellformed |-> TRUE,
      entries |-> EntriesFrom(S, 1, 1, la)] :
        S \in KeySets, iv \in 1..MaxInterval, la \in 0..1}

Raw(data) == [data |-> data, wellformed |-> FALSE, entries |-> <<>>]

\* The blocks with short values, which the damaged blocks are made from.
BaseBlocks ==
    {BuildFrom(EntriesFrom(2..k, 1, 1, 0), iv, 1, <<>>, <<>>) :
        k \in 3..(MaxEntries + 1), iv \in 1..MaxInterval}

\* Blocks whose entry region lost its last bytes.
TruncatedInputs ==
    {Raw(MakeBlock(SubSeq(b.region, 1, Len(b.region) - k), b.restarts)) :
        b \in BaseBlocks, k \in 1..MaxCut}

\* The bytes a damaged block has in place of one of its own.
FlipBytes == {0, 3, 130}

\* Blocks with one byte replaced, anywhere in the buffer.
FlippedInputs ==
    UNION {{Raw([MakeBlock(b.region, b.restarts) EXCEPT ![i] = v]) :
              i \in 1..(Len(b.region) + WordSize * (Len(b.restarts) + 1)),
              v \in FlipBytes} : b \in BaseBlocks}

\* Buffers too short for a block, or just long enough for a restart count.
RECURSIVE ShortBuffers(_)
ShortBuffers(n) ==
    IF n = 0 THEN {<<>>}
    ELSE ShortBuffers(n - 1)
             \cup {Append(b, v) : b \in {c \in ShortBuffers(n - 1) : Len(c) = n - 1},
                                  v \in {0, 1}}

ShortInputs == {Raw(b) : b \in ShortBuffers(WordSize)}

\* An entry with shared = 0, non_shared = 1 and value_length = 2^32 - 1.
WrapEntry == <<0, 1, 255, 255, 255, 255, 15, 9>>

\* An entry with shared = 0, non_shared = 13 and value_length = 2^32 - 13,
\* whose key delta runs past the end of a small buffer.
WrapPastEntry == <<0, 13, 243, 255, 255, 255, 15>>

\* Blocks with an entry whose non_shared + value_length is 2^32 or more.
WrapInputs ==
    {Raw(MakeBlock(WrapEntry, <<0>>)),
     Raw(MakeBlock(<<0, 1, 0, 1>> \o WrapEntry, <<0, 4>>)),
     Raw(MakeBlock(<<0, 1, 0, 1>> \o WrapEntry \o <<0, 1, 0, 2>>, <<0, 4>>)),
     Raw(MakeBlock(WrapPastEntry, <<0>>)),
     Raw(MakeBlock(<<0, 1, 0, 1>> \o WrapPastEntry, <<0, 4>>))}

Inputs ==
    WellFormedInputs \cup TruncatedInputs \cup FlippedInputs
        \cup ShortInputs \cup WrapInputs

----------------------------------------------------------------------------
(* The state machine.                                                      *)

IterIds == {1, 2}

NoBlock == [built |-> FALSE, size |-> 0, restart_offset |-> Unset]

NoCrash == \A i \in IterIds : iters[i].kind # "crashed"

InitWith(inputs) ==
    /\ contents \in inputs
    /\ block = NoBlock
    /\ iters = [i \in IterIds |-> NoIter]

\* Block::Block(contents)
Construct ==
    /\ ~block.built
    /\ block' = BlockOf(contents.data)
    /\ UNCHANGED <<contents, iters>>

\* iter = block->NewIterator(cmp)
CallNewIterator(I) ==
    \E i \in I :
        /\ block.built
        /\ iters[i].kind = "none"
        /\ iters' = [iters EXCEPT ![i] = NewIterator(contents.data, block)]
        /\ UNCHANGED <<contents, block>>

\* The results an operation F can have: the one result it has when it
\* reads inside the buffer only, and otherwise one for each thing an
\* out-of-bounds read can give.
Outcomes(F(_)) ==
    Bind(F("crash"), LAMBDA r :
        IF r.kind # "crashed" THEN {r} ELSE {F(g) : g \in Oracle})

\* The operations of the iterators of NewEmptyIterator and NewErrorIterator
\* (Seek, SeekToFirst, SeekToLast) change nothing.
EmptyIteratorOp(it) == it

\* key_ as one buffer shared by all the iterators (a static member).
Store_SharedKey(its, i, result) ==
    [j \in DOMAIN its |->
        IF j = i THEN result
        ELSE IF its[j].kind = "real" THEN [its[j] EXCEPT !.key = result.key]
        ELSE its[j]]

\* The fields of a Block::Iter are members of that object: an operation of
\* iterator i assigns the fields of iterator i.
Store(its, i, result) == [its EXCEPT ![i] = result]

\* An operation of iterator i, applied to the block's buffer; hist is the
\* history it leaves.
Apply(i, F(_), hist) ==
    /\ NoCrash
    /\ iters[i].kind \in {"real", "empty", "error"}
    /\ \E result \in (IF iters[i].kind = "real" THEN Outcomes(F)
                      ELSE {EmptyIteratorOp(iters[i])}) :
           iters' = Store(iters, i, [result EXCEPT !.hist = hist])
    /\ UNCHANGED <<contents, block>>

\* iter->Next(), which asserts Valid()
CallNext(I) ==
    \E i \in I :
        /\ Valid(iters[i])
        /\ Apply(i, LAMBDA g : IterNext(contents.data, iters[i], g),
                 IF iters[i].hist.op = "SeekToFirst"
                 THEN [iters[i].hist EXCEPT !.n = @ + 1]
                 ELSE [NoHist EXCEPT !.op = "Next"])

\* iter->Prev(), which asserts Valid()
CallPrev(I) ==
    \E i \in I :
        /\ Valid(iters[i])
        /\ Apply(i, LAMBDA g : IterPrev(contents.data, iters[i], g),
                 IF iters[i].hist.op = "SeekToLast"
                 THEN [iters[i].hist EXCEPT !.n = @ + 1]
                 ELSE [NoHist EXCEPT !.op = "Prev"])

\* iter->Seek(target)
CallSeek(I) ==
    \E i \in I, target \in Targets :
        Apply(i, LAMBDA g : IterSeek(contents.data, iters[i], target, g),
              [NoHist EXCEPT !.op = "Seek", !.target = target])

\* iter->SeekToFirst()
CallSeekToFirst(I) ==
    \E i \in I :
        Apply(i, LAMBDA g : IterSeekToFirst(contents.data, iters[i], g),
              [NoHist EXCEPT !.op = "SeekToFirst"])

\* iter->SeekToLast()
CallSeekToLast(I) ==
    \E i \in I :
        Apply(i, LAMBDA g : IterSeekToLast(contents.data, iters[i], g),
              [NoHist EXCEPT !.op = "SeekToLast"])

\* One block and one iterator over it.
Init == InitWith(Inputs)

Next ==
    \/ Construct
    \/ CallNewIterator({1})
    \/ CallNext({1})
    \/ CallPrev({1})
    \/ CallSeek({1})
    \/ CallSeekToFirst({1})
    \/ CallSeekToLast({1})

Spec == Init /\ [][Next]_vars

\* The same, over the blocks whose entries declare lengths that sum to
\* less than 2^32.
InitNoWrap == InitWith(Inputs \ WrapInputs)

SpecNoWrap == InitNoWrap /\ [][Next]_vars

\* The blocks two iterators are run over: the block of keys <<1, 1>> and
\* <<1, 2>> with one and with two restart points, the same with its last
\* byte cut off, and two blocks with a wrapping entry.
PairBase(iv) == BuildFrom(EntriesFrom({3, 4}, 1, 1, 0), iv, 1, <<>>, <<>>)

PairInputs ==
    {[data |-> BuildBlock(EntriesFrom({3, 4}, 1, 1, 0), iv), wellformed |-> TRUE,
      entries |-> EntriesFrom({3, 4}, 1, 1, 0)] : iv \in 1..2}
        \cup {Raw(MakeBlock(SubSeq(PairBase(2).region, 1,
                                   Len(PairBase(2).region) - 1),
                            PairBase(2).restarts)),
              Raw(MakeBlock(WrapEntry, <<0>>)),
              Raw(MakeBlock(WrapPastEntry, <<0>>))}

\* One block and two iterators over it, their operations interleaved.
InitPair == InitWith(PairInputs)

NextPair ==
    \/ Construct
    \/ CallNewIterator(IterIds)
    \/ CallNext(IterIds)
    \/ CallPrev(IterIds)
    \/ CallSeek(IterIds)
    \/ CallSeekToFirst(IterIds)
    \/ CallSeekToLast(IterIds)

SpecPair == InitPair /\ [][NextPair]_vars

----------------------------------------------------------------------------
(* Properties.                                                             *)

\* value(): the bytes of the slice value_.
ValueBytes(it) == Bytes(contents.data, Small(it.value.off), Small(it.value.len))

\* The iterator is at the k-th entry of the entries the block was built
\* from, with no error.
AtEntry(it, k) ==
    /\ Valid(it)
    /\ it.key = contents.entries[k].key
    /\ ValueBytes(it) = contents.entries[k].value
    /\ it.status = OK

\* The iterator is not valid and has no error.
AtEnd(it) == ~Valid(it) /\ it.status = OK

\* C1: on a well-formed block, SeekToFirst followed by n calls of Next is at
\* entry e_n (key and value equal to the originals) while n is less than
\* the number of entries, and the Next issued at the last entry leaves the
\* iterator invalid with status OK.
C1_ForwardScan ==
    \A i \in IterIds :
        LET it == iters[i] IN
        (contents.wellformed /\ it.kind = "real" /\ it.hist.op = "SeekToFirst")
        => IF it.hist.n < Len(contents.entries)
           THEN AtEntry(it, it.hist.n + 1)
           ELSE AtEnd(it) /\ it.hist.n = Len(contents.entries)

\* A forward scan of a block of at least three entries, built with restart
\* interval 2 or more, has run off the end.
C1_Witness ==
    \E i \in IterIds :
        /\ contents.wellformed
        /\ iters[i].hist.op = "SeekToFirst"
        /\ Len(contents.entries) >= 3
        /\ iters[i].hist.n = Len(contents.entries)
        /\ iters[i].num_restarts < Len(contents.entries)
        /\ ~Valid(iters[i])

\* The index of the first entry whose key is >= target, or 0.
RECURSIVE FirstAtLeast(_, _, _)
FirstAtLeast(es, target, k) ==
    IF k > Len(es) THEN 0
    ELSE IF Compare(es[k].key, target) >= 0 THEN k
    ELSE FirstAtLeast(es, target, k + 1)

\* C2: on a well-formed block, Seek(target) is at the first entry whose key
\* is >= target, or invalid with status OK if there is none.
C2_SeekLowerBound ==
    \A i \in IterIds :
        LET it == iters[i]
            k == FirstAtLeast(contents.entries, it.hist.target, 1)
        IN  (contents.wellformed /\ it.kind = "real" /\ it.hist.op = "Seek")
            => IF k > 0 THEN AtEntry(it, k) ELSE AtEnd(it)

\* Seek with the key of the last of four entries as target has landed on
\* it, in a block with several restart points.
C2_Witness ==
    \E i \in IterIds :
        /\ contents.wellformed
        /\ iters[i].hist.op = "Seek"
        /\ Len(contents.entries) = 4
        /\ iters[i].num_restarts >= 2
        /\ iters[i].hist.target = contents.entries[4].key
        /\ AtEntry(iters[i], 4)

\* C3: on a well-formed block, SeekToLast followed by n calls of Prev is at
\* entry e_(last-n) while n is less than the number of entries, and only the
\* Prev issued at the first entry leaves the iterator invalid, with status
\* OK.
C3_BackwardScan ==
    \A i \in IterIds :
        LET it == iters[i] IN
        (contents.wellformed /\ it.kind = "real" /\ it.hist.op = "SeekToLast")
        => IF it.hist.n < Len(contents.entries)
           THEN AtEntry(it, Len(contents.entries) - it.hist.n)
           ELSE AtEnd(it) /\ it.hist.n = Len(contents.entries)

\* A backward scan of a block of at least three entries has run off the
\* front.
C3_Witness ==
    \E i \in IterIds :
        /\ contents.wellformed
        /\ iters[i].hist.op = "SeekToLast"
        /\ Len(contents.entries) >= 3
        /\ iters[i].hist.n = Len(contents.entries)
        /\ iters[i].num_restarts < Len(contents.entries)
        /\ ~Valid(iters[i])

\* C4 as stated: an iterator whose status is the entry corruption is not
\* valid, whatever was called since.
C4_PinnedInvalid ==
    \A i \in IterIds :
        (iters[i].kind = "real" /\ iters[i].status = BadEntry)
        => ~Valid(iters[i])

\* C4, amended: the iterator is invalid, with the corruption as its status,
\* when the operation that detected the corruption returns.
C4_InvalidOnDetection ==
    \A i \in IterIds :
        (iters[i].kind = "real" /\ iters[i].seen.detected)
        => ~Valid(iters[i]) /\ iters[i].status = BadEntry

\* A Next has detected a corruption after a valid first entry.
C4_Witness ==
    \E i \in IterIds :
        /\ iters[i].kind = "real"
        /\ iters[i].seen.detected
        /\ iters[i].hist.op = "SeekToFirst"
        /\ iters[i].hist.n > 0

\* C5: the status of a Block::Iter is OK when it is created, is never
\* anything but OK or "bad entry in block", changes only in an operation
\* that detected a corruption, and once it is "bad entry in block" every
\* later operation leaves it so.
C5_StickyStatus ==
    [][\A i \in IterIds :
          /\ (iters[i].kind = "none" /\ iters'[i].kind = "real")
             => iters'[i].status = OK
          /\ (iters[i].kind = "real" /\ iters'[i].kind = "real")
             => /\ iters'[i].status \in {OK, BadEntry}
                /\ iters'[i].status # iters[i].status
                   => iters[i].status = OK /\ iters'[i].seen.detected
                /\ iters[i].status = BadEntry => iters'[i].status = BadEntry]_vars

\* After a corruption, a SeekToFirst and a Next have left the iterator at a
\* valid entry, and the status is still the corruption.
C5_Witness ==
    \E i \in IterIds :
        /\ iters[i].kind = "real"
        /\ iters[i].status = BadEntry
        /\ iters[i].hist.op = "SeekToFirst"
        /\ iters[i].hist.n = 1
        /\ Valid(iters[i])

\* The buffer is no usable block: shorter than 4 bytes, or the restart
\* count in its last 4 bytes exceeds (length - 4) / 4.
BadContainer ==
    \/ Len(contents.data) < 4
    \/ BigLess(Big((Len(contents.data) - 4) \div 4),
               DecodeFixed32(contents.data, Len(contents.data) - 4))

\* The restart count in the last 4 bytes of a usable block.
RestartCount == Small(DecodeFixed32(contents.data, Len(contents.data) - 4))

\* C6: the constructor marks the block invalid (size = 0) exactly when the
\* buffer is no usable block; otherwise size is the buffer's length, at
\* least 4, and restart_offset = size - 4 * (num_restarts + 1) >= 0.
C6_BlockGeometry ==
    block.built
    => /\ (block.size = 0) <=> BadContainer
       /\ ~BadContainer
          => /\ block.size = Len(contents.data)
             /\ block.size >= 4
             /\ block.restart_offset = block.size - 4 * (RestartCount + 1)
             /\ 0 <= block.restart_offset
             /\ block.restart_offset + 4 * (RestartCount + 1) = block.size

\* A buffer of 8 bytes or more was rejected for its restart count.
C6_Witness ==
    /\ block.built
    /\ block.size = 0
    /\ Len(contents.data) >= 8

\* C7: the iterator NewIterator returns is the error iterator (never valid,
\* status "bad block contents") for a buffer that is no usable block, the
\* empty iterator (never valid, status OK) for a block with no restart
\* points, and otherwise a Block::Iter, which starts invalid with status OK.
C7_IteratorVariant ==
    \A i \in IterIds :
        LET it == iters[i] IN
        it.kind # "none"
        => /\ BadContainer
              => it.kind = "error" /\ ~Valid(it) /\ it.status = BadBlock
           /\ (~BadContainer /\ RestartCount = 0)
              => it.kind = "empty" /\ ~Valid(it) /\ it.status = OK
           /\ (~BadContainer /\ RestartCount > 0)
              => /\ it.kind \in {"real", "crashed"}
                 /\ it.hist.op = "none" => ~Valid(it) /\ it.status = OK

\* The empty iterator of a block that has entry bytes but no restart
\* points, after a Seek.
C7_Witness ==
    \E i \in IterIds :
        /\ iters[i].kind = "empty"
        /\ iters[i].hist.op = "Seek"
        /\ Len(contents.data) > 4

\* C8 as stated: an operation that parsed at a malformed entry leaves the
\* iterator invalid, with current = restart_offset, restart_index =
\* num_restarts, key and value empty and status "bad entry in block".
C8_MalformedIsCorruption ==
    \A i \in IterIds :
        LET it == iters[i] IN
        (it.kind = "real" /\ it.seen.malformed)
        => /\ ~Valid(it)
           /\ it.current = it.restarts
           /\ it.restart_index = it.num_restarts
           /\ it.key = <<>>
           /\ it.value = EmptySlice
           /\ it.status = BadEntry

\* C9 as stated: the entry DecodeEntry accepted last has non_shared_len +
\* value_len, as a mathematical sum, at most limit - p.
C9_AcceptedFitsLimit ==
    \A i \in IterIds :
        LET it == iters[i] IN
        (it.kind = "real" /\ it.dec.ok)
        => ~BigLess(Big(it.restarts - it.dec.p),
                    BigAdd(it.dec.non_shared, it.dec.value_length))

\* An iterator without the history of the calls made on it.
Bare(it) == [it EXCEPT !.hist = NoHist]

\* The states the call that leaves history h takes the iterator it to when
\* it is the only iterator of the block.
SoloSteps(it, h) ==
    IF it.kind = "none" THEN {NewIterator(contents.data, block)}
    ELSE IF it.kind \in {"empty", "error"} THEN {it}
    ELSE IF it.kind # "real" THEN {}
    ELSE IF h.op = "Seek"
    THEN Outcomes(LAMBDA g : IterSeek(contents.data, it, h.target, g))
    ELSE IF h.op = "SeekToFirst" /\ h.n = 0
    THEN Outcomes(LAMBDA g : IterSeekToFirst(contents.data, it, g))
    ELSE IF h.op = "SeekToLast" /\ h.n = 0
    THEN Outcomes(LAMBDA g : IterSeekToLast(contents.data, it, g))
    ELSE IF ~Valid(it) THEN {}
    ELSE IF h.op \in {"Next", "SeekToFirst"}
    THEN Outcomes(LAMBDA g : IterNext(contents.data, it, g))
    ELSE Outcomes(LAMBDA g : IterPrev(contents.data, it, g))

\* C10: no step changes the buffer, or the geometry of the constructed
\* block; and a step that changes one iterator leaves the other as it is and
\* takes the one to a state a call takes it to when it runs alone, so each
\* iterator goes through a sequence of states of a run on its own.
C10_Independent ==
    [][/\ contents' = contents
       /\ block.built => block' = block
       /\ \A i \in IterIds :
             iters'[i] # iters[i]
             => /\ \A j \in IterIds \ {i} : iters'[j] = iters[j]
                /\ Bare(iters'[i])
                       \in {Bare(r) : r \in SoloSteps(iters[i], iters'[i].hist)}]_vars

\* Two iterators of one block, both valid, at different entries, one
\* moved there by Next and the other by Prev.
C10_Witness ==
    /\ Valid(iters[1])
    /\ Valid(iters[2])
    /\ iters[1].current # iters[2].current
    /\ iters[1].hist.op = "SeekToFirst" /\ iters[1].hist.n = 1
    /\ iters[2].hist.op = "SeekToLast" /\ iters[2].hist.n = 1

\* restart_point[j] of the iterator's block.
RestartPoint(it, j) == GetRestartPoint(contents.data, it, j)

\* C11 as stated: on a well-formed block a valid iterator has restart_index
\* equal to the index of the restart range that contains current:
\* restart_point[restart_index] <= current, and restart_index is the last
\* index or current < restart_point[restart_index + 1].
C11_RestartIndexContains ==
    \A i \in IterIds :
        LET it == iters[i] IN
        (contents.wellformed /\ it.kind = "real" /\ Valid(it))
        => /\ it.restart_index < it.num_restarts
           /\ ~BigLess(Big(it.current), RestartPoint(it, it.restart_index))
           /\ \/ it.restart_index = it.num_restarts - 1
              \/ BigLess(Big(it.current), RestartPoint(it, it.restart_index + 1))

\* The index of the entry the iterator is at, or 0 if it is at none.
EntryIndexOf(it) ==
    IF \E k \in 1..Len(contents.entries) : AtEntry(it, k)
    THEN CHOOSE k \in 1..Len(contents.entries) : AtEntry(it, k)
    ELSE 0

\* The step from a to b was a call of Prev.
IsPrev(a, b) ==
    \/ b.hist.op = "Prev"
    \/ a.hist.op = "SeekToLast" /\ b.hist.op = "SeekToLast"
       /\ b.hist.n = a.hist.n + 1

\* The step from a to b was a call of Next.
IsNext(a, b) ==
    \/ b.hist.op = "Next"
    \/ a.hist.op = "SeekToFirst" /\ b.hist.op = "SeekToFirst"
       /\ b.hist.n = a.hist.n + 1

\* C12: on a well-formed block a valid iterator is at an entry e_k of the
\* block, however it got there; Prev takes it to e_(k-1) with its full key
\* and value, or, from the first entry, leaves it invalid with the status
\* unchanged; and Next takes it to e_(k+1), or off the end from the last
\* entry, so Next followed by Prev returns to e_k.
C12_PrevFromAnywhere ==
    [][\A i \in IterIds :
          LET a == iters[i]
              b == iters'[i]
              k == EntryIndexOf(a)
          IN  (contents.wellformed /\ a.kind = "real" /\ Valid(a) /\ b # a)
              => /\ k > 0
                 /\ IsPrev(a, b)
                    => IF k > 1 THEN AtEntry(b, k - 1)
                       ELSE ~Valid(b) /\ b.status = a.status
                 /\ IsNext(a, b)
                    => IF k < Len(contents.entries) THEN AtEntry(b, k + 1)
                       ELSE AtEnd(b)]_vars

\* A Prev, issued after something other than SeekToLast and Prev alone, has
\* stepped back from an entry that sits exactly at a restart point to the
\* entry before it, which is not the first of its restart range.
C12_Witness ==
    \E i \in IterIds :
        LET it == iters[i] IN
        /\ contents.wellformed
        /\ it.kind = "real"
        /\ it.hist.op = "Prev"
        /\ Valid(it)
        /\ it.restart_index + 1 < it.num_restarts
        /\ NextEntryOffset(it) = RestartPoint(it, it.restart_index + 1)
        /\ BigLess(RestartPoint(it, it.restart_index), Big(it.current))

\* The key of the entry at restart point j of a well-formed block: restart
\* entries store their key in full.
RestartKey(it, j) ==
    LET d == DecodeEntryAt(contents.data, RestartPoint(it, j), it.restarts)
    IN  Bytes(contents.data, d.p, Small(d.non_shared))

\* The largest restart index whose key is before target, or 0.
LastRestartBefore(it, target) ==
    LET S == {j \in 0..(it.num_restarts - 1) :
                 Compare(RestartKey(it, j), target) < 0}
    IN  IF S = {} THEN 0 ELSE CHOOSE j \in S : \A k \in S : k <= j

\* C13: in the binary search of Seek every window has 0 <= left <= right <=
\* num_restarts - 1 and every midpoint left < mid <= right (so index 0 is
\* never probed and mid - 1 never underflows); a search that is not cut
\* short by a corruption ends with left = right; and on a well-formed block
\* it ends with left the largest restart index whose key is before the
\* target, or 0 if there is none.
C13_SearchWindow ==
    \A i \in IterIds :
        LET it == iters[i]
            sr == it.search
        IN  (it.kind = "real" /\ it.hist.op = "Seek")
            => /\ \A n \in 1..Len(sr.probes) :
                     /\ 0 <= sr.probes[n].left
                     /\ sr.probes[n].left <= sr.probes[n].right
                     /\ sr.probes[n].right <= it.num_restarts - 1
                     /\ sr.probes[n].left < sr.probes[n].mid
                     /\ sr.probes[n].mid <= sr.probes[n].right
               /\ sr.done
                  => /\ sr.left = sr.right
                     /\ 0 <= sr.left /\ sr.left <= it.num_restarts - 1
               /\ contents.wellformed
                  => sr.done /\ sr.left = LastRestartBefore(it, it.hist.target)

\* A Seek over four restart points has probed two midpoints and ended at a
\* restart point that is neither the first nor the last; its target is the
\* key of a restart entry.
C13_Witness ==
    \E i \in IterIds :
        LET it == iters[i] IN
        /\ contents.wellformed
        /\ it.kind = "real"
        /\ it.hist.op = "Seek"
        /\ it.num_restarts = 4
        /\ Len(it.search.probes) = 2
        /\ it.search.done
        /\ it.search.left \in {1, 2}
        /\ \E j \in 0..3 : RestartKey(it, j) = it.hist.target

\* C14 as stated: a Seek that examined a bad restart entry (a midpoint of
\* the binary search, or the restart point the linear search starts at,
\* that cannot be decoded or has a shared length other than 0) returns
\* with the iterator invalid, at no entry, with status "bad entry in block".
C14_BadRestartAborts ==
    \A i \in IterIds :
        LET it == iters[i] IN
        (it.kind = "real" /\ it.hist.op = "Seek" /\ it.seen.bad_restart)
        => /\ ~Valid(it)
           /\ it.key = <<>>
           /\ it.value = EmptySlice
           /\ it.status = BadEntry

\* The entries that lie one after the other from offset off, up to the
\* first malformed one (bad = TRUE) or to limit (bad = FALSE); key is the
\* key of the entry before off.
RECURSIVE EntriesUpTo(_, _, _, _, _)
EntriesUpTo(data, limit, off, key, acc) ==
    IF off >= limit THEN [entries |-> acc, bad |-> FALSE]
    ELSE IF Malformed(data, off, limit, Len(key))
    THEN [entries |-> acc, bad |-> TRUE]
    ELSE LET h == DecodeLengths(data, off, limit)
             k == SubSeq(key, 1, Small(h.shared))
                      \o Bytes(data, h.p, Small(h.non_shared))
             v == Bytes(data, h.p + Small(h.non_shared), Small(h.value_length))
         IN  EntriesUpTo(data, limit,
                         h.p + Small(h.non_shared) + Small(h.value_length), k,
                         Append(acc, [key |-> k, value |-> v]))

\* The well-formed entries at the front of the block of iterator it.
FrontEntries(it) == EntriesUpTo(contents.data, it.restarts, 0, <<>>, <<>>)

\* C15 as stated: in a block that begins (at restart point 0) with k >= 1
\* well-formed entries followed by a malformed one, SeekToFirst and each of
\* the next k-1 calls of Next leave the iterator valid at the next of these
\* entries with its key and value and leave the status as it was, and the
\* k-th Next leaves it invalid with status "bad entry in block".
C15_LazyDetection ==
    [][\A i \in IterIds :
          LET a == iters[i]
              b == iters'[i]
              front == FrontEntries(b)
              k == Len(front.entries)
          IN  (b # a /\ b.kind = "real" /\ b.hist.op = "SeekToFirst"
                 /\ RestartPoint(b, 0) = Big(0) /\ front.bad /\ k >= 1)
              => /\ b.hist.n < k
                    => /\ Valid(b)
                       /\ b.key = front.entries[b.hist.n + 1].key
                       /\ ValueBytes(b) = front.entries[b.hist.n + 1].value
                       /\ b.status = a.status
                       /\ ~b.seen.detected
                 /\ b.hist.n = k
                    => ~Valid(b) /\ b.status = BadEntry]_vars

\* C16: every navigation operation returns: no operation calls
\* ParseNextKey more than once for every 3 bytes of the entry region and
\* once more, every successful ParseNextKey leaves the parse offset (the
\* end of the entry) beyond where it started, and each window of the binary
\* search is smaller than the one before. (The backward scan of Prev is
\* ScanBack, which goes from restart_index to restart_index - 1 and stops
\* at 0.)
C16_Terminates ==
    \A i \in IterIds :
        LET it == iters[i] IN
        /\ it.kind # "diverged"
        /\ it.kind = "real"
           => /\ it.seen.mono
              /\ it.seen.parses <= (it.restarts \div 3) + 1
              /\ \A n \in 1..(Len(it.search.probes) - 1) :
                    it.search.probes[n + 1].right - it.search.probes[n + 1].left
                        < it.search.probes[n].right - it.search.probes[n].left
              /\ (it.search.done /\ Len(it.search.probes) > 0)
                 => it.search.right - it.search.left
                        < it.search.probes[Len(it.search.probes)].right
                              - it.search.probes[Len(it.search.probes)].left

\* A SeekToLast on a damaged block has called ParseNextKey three times
\* and has ended on a corruption.
C16_Witness ==
    \E i \in IterIds :
        LET it == iters[i] IN
        /\ ~contents.wellformed
        /\ it.kind = "real"
        /\ it.hist.op = "SeekToLast"
        /\ it.hist.n = 0
        /\ it.seen.parses >= 3
        /\ it.seen.detected

\* Every restart point of the block is the offset of one of the entries
\* that lie one after the other from offset 0, and that entry has shared
\* length 0; no entry is malformed.
RECURSIVE EntryStarts(_, _, _)
EntryStarts(data, limit, off) ==
    IF off >= limit \/ MalformedLengths(data, off, limit) THEN {}
    ELSE LET h == DecodeLengths(data, off, limit)
         IN  (IF h.shared = Big(0) THEN {off} ELSE {})
                 \cup EntryStarts(data, limit,
                                  h.p + Small(h.non_shared) + Small(h.value_length))

RestartsAtEntries(it) ==
    /\ ~FrontEntries(it).bad
    /\ \A j \in 0..(it.num_restarts - 1) :
          /\ BigLess(RestartPoint(it, j), Big(it.restarts))
          /\ Small(RestartPoint(it, j))
                 \in EntryStarts(contents.data, it.restarts, 0)

NearestRestart(it, cur) ==
    LET S == {Small(RestartPoint(it, j)) : j \in 0..(it.num_restarts - 1)}
        T == {o \in S : o <= cur}
    IN  IF T = {} THEN 0 ELSE CHOOSE o \in T : \A q \in T : q <= o

\* The key and the value span of the entry at offset cur, decoded forward
\* from offset off, where the key before is key.
RECURSIVE DecodeForward(_, _, _, _, _)
DecodeForward(data, limit, off, key, cur) ==
    LET h == DecodeLengths(data, off, limit)
        k == SubSeq(key, 1, Small(h.shared)) \o Bytes(data, h.p, Small(h.non_shared))
    IN  IF off >= cur
        THEN [key |-> k,
              value |-> [off |-> Big(h.p + Small(h.non_shared)),
                         len |-> h.value_length, inbuf |-> TRUE]]
        ELSE DecodeForward(data, limit,
                           h.p + Small(h.non_shared) + Small(h.value_length), k, cur)

\* C18: on a well-formed block the key and the value of a valid iterator are
\* those of the entry at its offset decoded forward from the nearest restart
\* point at or before it, whatever calls took the iterator there.
C18_KeyOfOffset ==
    \A i \in IterIds :
        LET it == iters[i] IN
        (contents.wellformed /\ it.kind = "real" /\ Valid(it))
        => LET e == DecodeForward(contents.data, it.restarts,
                                  NearestRestart(it, it.current), <<>>, it.current)
           IN  it.key = e.key /\ it.value = e.value

\* Two calls of Next or more after SeekToFirst have carried the key over a
\* restart point: the iterator is at an entry that sits at a restart point,
\* with the restart index of the range before it, and its key has one byte.
C18_Witness ==
    \E i \in IterIds :
        LET it == iters[i] IN
        /\ contents.wellformed
        /\ it.kind = "real"
        /\ Valid(it)
        /\ it.hist.op = "SeekToFirst"
        /\ it.hist.n >= 2
        /\ it.restart_index + 1 < it.num_restarts
        /\ RestartPoint(it, it.restart_index + 1) = Big(it.current)
        /\ Len(it.key) = 1

\* C19: between the operations of a Block::Iter, current <= restart_offset;
\* an invalid iterator has current = restart_offset and restart_index =
\* num_restarts; a valid one has restart_index < num_restarts; and every
\* index the last operation passed to GetRestartPoint was below
\* num_restarts, as the assertion there demands.
C19_CursorBounds ==
    \A i \in IterIds :
        LET it == iters[i] IN
        it.kind = "real"
        => /\ it.current <= it.restarts
           /\ ~Valid(it)
              => it.current = it.restarts /\ it.restart_index = it.num_restarts
           /\ Valid(it) => it.restart_index < it.num_restarts
           /\ it.seen.index_ok

\* A Seek on a block of three restart points or more was cut short by a
\* corruption at a midpoint of its binary search.
C19_Witness ==
    \E i \in IterIds :
        LET it == iters[i] IN
        /\ it.kind = "real"
        /\ it.hist.op = "Seek"
        /\ it.num_restarts >= 3
        /\ Len(it.search.probes) >= 1
        /\ ~it.search.done
        /\ it.seen.detected
        /\ ~Valid(it)

\* What an iterator shows of its position.
Position(it) ==
    [valid |-> Valid(it), current |-> it.current,
     restart_index |-> it.restart_index, key |-> it.key, value |-> it.value]

\* The positions the absolute positioning that leaves history h reaches from
\* a newly created iterator of the same block.
FromNew(it, h) ==
    LET new == NewIter(it.restarts, it.num_restarts)
        R == IF h.op = "Seek"
             THEN Outcomes(LAMBDA g : IterSeek(contents.data, new, h.target, g))
             ELSE IF h.op = "SeekToFirst"
             THEN Outcomes(LAMBDA g : IterSeekToFirst(contents.data, new, g))
             ELSE Outcomes(LAMBDA g : IterSeekToLast(contents.data, new, g))
    IN  {Position(r) : r \in {q \in R : q.kind = "real"}}

\* C20: after Seek(target), SeekToFirst or SeekToLast the position of the
\* iterator (valid, current, restart_index, key, value) is the one the same
\* call reaches from a newly created iterator, whatever state the iterator
\* was in before; so it is the same from every prior state, and calling the
\* operation twice gives what calling it once gives. Only the status may
\* differ.
C20_AbsolutePositioning ==
    \A i \in IterIds :
        LET it == iters[i] IN
        (it.kind = "real" /\ it.hist.op \in {"Seek", "SeekToFirst", "SeekToLast"}
           /\ it.hist.n = 0)
        => Position(it) \in FromNew(it, it.hist)

\* A Seek issued after a corruption has left the iterator at a valid entry
\* that is not the first of its restart range, with the earlier error as
\* its status.
C20_Witness ==
    \E i \in IterIds :
        LET it == iters[i] IN
        /\ it.kind = "real"
        /\ it.hist.op = "Seek"
        /\ it.status = BadEntry
        /\ ~it.seen.detected
        /\ Valid(it)
        /\ BigLess(RestartPoint(it, it.restart_index), Big(it.current))

====
